---- MODULE Spec2Model ----
(***************************************************************************)
(* Token / subscription accounting of ai-studio-backend.                   *)
(*                                                                         *)
(* The database tables user_subscriptions and token_transactions are the   *)
(* state.  Every request handler is a function of the row it loaded and of *)
(* its request (Handle); an SQLAlchemy session that commits writes the     *)
(* columns it changed, with the values it computed from the row it loaded  *)
(* (Flush).  Spec runs each handler from its SELECT to its commit in one   *)
(* step (one server process: the handlers are `async def` bodies without   *)
(* an await between the SELECT and the commit).  ConcSpec runs the         *)
(* handlers of several server processes, interleaved at the SQL statements.*)
(***************************************************************************)
EXTENDS Integers, Naturals, Sequences, FiniteSets, TLC

\* ------------------------------------------------------------------ bounds
MaxTxns == 3        \* rows of token_transactions a behaviour may write
MaxConcTxns == 3    \* rows of token_transactions under ConcSpec

\* --------------------------------------------------------------- constants
PERIOD_DAYS == 30

Users == {"u1", "u2"}
Admins == {"admin"}
Procs == {"p1", "p2"}

SubscriptionTier == {"free", "basic", "pro", "pro_plus", "ultimate"}

TIER_TOKEN_LIMITS ==
    [t \in SubscriptionTier |->
        CASE t = "free" -> 100
          [] t = "basic" -> 300
          [] t = "pro" -> 1000
          [] t = "pro_plus" -> 3000
          [] t = "ultimate" -> -1]

TokenOps == {"text_to_image", "multi_modal", "multi_modal_light",
             "image_to_text", "text_to_text"}

TOKEN_COSTS ==
    [o \in TokenOps |->
        CASE o = "text_to_image" -> 10
          [] o = "multi_modal" -> 20
          [] o = "multi_modal_light" -> 8
          [] o = "image_to_text" -> 5
          [] o = "text_to_text" -> 3]

\* inputs of the requests
OperationNames == {"multi_modal", "text_to_text", "video_generation"}
TierNames == {"free", "pro", "ultimate", "gold"}
Amounts == {-95, 50}

NoRow == [tier |-> "none"]

VARIABLES subs, transactions, now, resp, sess,
          video_jobs, look_videos, queue, work, invoked

vars == <<subs, transactions, now, resp, sess,
          video_jobs, look_videos, queue, work, invoked>>

\* the tables and processes of the video jobs, and the last call of the
\* generation service
jobvars == <<video_jobs, look_videos, queue, work, invoked>>

\* ----------------------------------------------------- UserSubscription
is_unlimited(s) == s.tier = "ultimate"

\* has_tokens without the balance comparison
has_tokens_Always(s, required) == TRUE

has_tokens(s, required) ==
    IF is_unlimited(s) THEN TRUE ELSE s.available_tokens >= required

\* consume_tokens that does not count the amount into consumed_tokens
consume_tokens_NoConsumed(s, amount) ==
    IF is_unlimited(s)
    THEN [s EXCEPT !.consumed_tokens = @ + amount,
                   !.lifetime_consumed = @ + amount]
    ELSE IF s.available_tokens >= amount
         THEN [s EXCEPT !.available_tokens = @ - amount,
                        !.lifetime_consumed = @ + amount]
         ELSE s

\* consume_tokens that does not count the amount into lifetime_consumed
consume_tokens_NoLifetime(s, amount) ==
    IF is_unlimited(s)
    THEN [s EXCEPT !.consumed_tokens = @ + amount,
                   !.lifetime_consumed = @ + amount]
    ELSE IF s.available_tokens >= amount
         THEN [s EXCEPT !.available_tokens = @ - amount,
                        !.consumed_tokens = @ + amount]
         ELSE s

\* consume_tokens without the branch for the unlimited tier
consume_tokens_NoUnlimited(s, amount) ==
    IF s.available_tokens >= amount
    THEN [s EXCEPT !.available_tokens = @ - amount,
                   !.consumed_tokens = @ + amount,
                   !.lifetime_consumed = @ + amount]
    ELSE s

\* the row after consume_tokens(amount); the row itself when it returns False
consume_tokens(s, amount) ==
    IF is_unlimited(s)
    THEN [s EXCEPT !.consumed_tokens = @ + amount,
                   !.lifetime_consumed = @ + amount]
    ELSE IF s.available_tokens >= amount
         THEN [s EXCEPT !.available_tokens = @ - amount,
                        !.consumed_tokens = @ + amount,
                        !.lifetime_consumed = @ + amount]
         ELSE s

\* ---------------------------------------------------------- token_costs
is_valid_operation(operation) == operation \in DOMAIN TOKEN_COSTS

get_operation_cost(operation) == TOKEN_COSTS[operation]

\* ------------------------------------------------------------------ rows
NewSubscription(tier, t) ==
    [tier |-> tier,
     total_tokens |-> TIER_TOKEN_LIMITS[tier],
     available_tokens |-> TIER_TOKEN_LIMITS[tier],
     consumed_tokens |-> 0,
     lifetime_consumed |-> 0,
     period_start |-> t,
     period_end |-> t + PERIOD_DAYS]

\* a ledger row filed under another user than the one the handler works on
TokenTransaction_OtherUser(user_id, type, amount, before, after, admin_id) ==
    [user_id |-> CHOOSE u \in Users : u # user_id, type |-> type,
     amount |-> amount, balance_before |-> before, balance_after |-> after,
     admin_id |-> admin_id]

TokenTransaction(user_id, type, amount, before, after, admin_id) ==
    [user_id |-> user_id, type |-> type, amount |-> amount,
     balance_before |-> before, balance_after |-> after, admin_id |-> admin_id]

Columns == {"tier", "total_tokens", "available_tokens", "consumed_tokens",
            "lifetime_consumed", "period_start", "period_end"}


\* ------------------------------------------------------------- requests
Request(kind, user, operation, tier, amount, admin) ==
    [kind |-> kind, user |-> user, operation |-> operation, tier |-> tier,
     amount |-> amount, admin |-> admin]

ConsumeKinds == {"consume", "consume_internal"}

\* the requests served: every kind of request about u1; u2 is a second user
\* who consumes; ghost is a user id that is not in the users table
Requests ==
    {Request(k, "u1", o, "-", 0, "-") : k \in ConsumeKinds, o \in OperationNames}
    \cup {Request("consume_internal", "u2", "text_to_text", "-", 0, "-")}
    \cup {Request("tier", "u1", "-", t, 0, a) : t \in TierNames, a \in Admins}
    \cup {Request("topup", "u1", "-", "-", n, a) : n \in Amounts, a \in Admins}
    \cup {Request("reset", u, "-", "-", 0, a) : u \in {"u1", "ghost"}, a \in Admins}

\* what a handler answers: the HTTP status (500: an exception that is not an
\* HTTPException), and for consume the fields of its result
Response(kind, user, status, success, cost, available, consumed) ==
    [kind |-> kind, user |-> user, status |-> status, success |-> success,
     cost |-> cost, availableTokens |-> available, consumedTokens |-> consumed]

NoResponse == Response("none", "-", 0, FALSE, 0, 0, 0)

\* both consume handlers answer as "consume"
Kind(req) == IF req.kind \in ConsumeKinds THEN "consume" ELSE req.kind

Reject(req, status) == Response(Kind(req), req.user, status, FALSE, 0, 0, 0)

\* what a handler does with the row it loaded: the row it leaves in its
\* session, the transactions it adds, whether it commits, and its answer
\* (the balance fields of an answer after a commit are read back from the
\* table, see Answer)
Outcome(row, txns, commit, r) ==
    [row |-> row, txns |-> txns, commit |-> commit, resp |-> r]

\* ------------------------------------------------ subscription endpoints
\* get_or_create_subscription: the row it inserts when the SELECT found none
get_or_create_subscription(s, t) ==
    IF s = NoRow THEN NewSubscription("free", t) ELSE s

\* consume_tokens_internal that reads balance_before after consume_tokens
consume_tokens_internal_LateBalance(s, req) ==
    LET cost == get_operation_cost(req.operation)
        after == consume_tokens(s, cost)
        balance_before == after.available_tokens
        transaction ==
            TokenTransaction(req.user, "consumption", -cost,
                IF ~is_unlimited(after) THEN balance_before ELSE -1,
                IF ~is_unlimited(after) THEN after.available_tokens ELSE -1,
                "-")
    IN  IF ~has_tokens(s, cost)
        THEN Outcome(s, <<>>, FALSE,
                Response("consume", req.user, 200, FALSE, cost,
                         s.available_tokens, s.consumed_tokens))
        ELSE Outcome(after, <<transaction>>, TRUE,
                Response("consume", req.user, 200, TRUE, cost,
                         after.available_tokens, after.consumed_tokens))

\* consume_tokens_internal and POST /consume, from the has_tokens check on
consume_tokens_internal(s, req) ==
    LET cost == get_operation_cost(req.operation)
        balance_before == s.available_tokens
        after == consume_tokens(s, cost)
        transaction ==
            TokenTransaction(req.user, "consumption", -cost,
                IF ~is_unlimited(after) THEN balance_before ELSE -1,
                IF ~is_unlimited(after) THEN after.available_tokens ELSE -1,
                "-")
    IN  IF ~has_tokens(s, cost)
        THEN Outcome(s, <<>>, FALSE,
                Response("consume", req.user, 200, FALSE, cost,
                         s.available_tokens, s.consumed_tokens))
        ELSE Outcome(after, <<transaction>>, TRUE,
                Response("consume", req.user, 200, TRUE, cost,
                         after.available_tokens, after.consumed_tokens))

\* ------------------------------------------- admin subscription endpoints
\* update_user_subscription_tier that keeps consumed_tokens
update_user_subscription_tier_KeepsConsumed(s, req, t) ==
    LET new_tier == req.tier
        new_token_limit == TIER_TOKEN_LIMITS[new_tier]
        balance_before == s.available_tokens
        after ==
            [s EXCEPT !.tier = new_tier,
                      !.total_tokens = IF new_token_limit # -1 THEN new_token_limit ELSE @,
                      !.available_tokens = IF new_token_limit # -1 THEN new_token_limit ELSE @,
                      !.period_start = t,
                      !.period_end = t + PERIOD_DAYS]
        transaction ==
            TokenTransaction(req.user, "tier_change",
                IF new_token_limit # -1
                THEN after.available_tokens - balance_before ELSE 0,
                balance_before, after.available_tokens, req.admin)
    IN  IF s = NoRow
        THEN Outcome(NewSubscription(new_tier, t), <<>>, TRUE,
                Response(req.kind, req.user, 200, TRUE, 0, 0, 0))
        ELSE Outcome(after, <<transaction>>, TRUE,
                Response(req.kind, req.user, 200, TRUE, 0, 0, 0))

update_user_subscription_tier(s, req, t) ==
    LET new_tier == req.tier
        new_token_limit == TIER_TOKEN_LIMITS[new_tier]
        balance_before == s.available_tokens
        after ==
            [s EXCEPT !.tier = new_tier,
                      !.total_tokens = IF new_token_limit # -1 THEN new_token_limit ELSE @,
                      !.available_tokens = IF new_token_limit # -1 THEN new_token_limit ELSE @,
                      !.consumed_tokens = 0,
                      !.period_start = t,
                      !.period_end = t + PERIOD_DAYS]
        transaction ==
            TokenTransaction(req.user, "tier_change",
                IF new_token_limit # -1
                THEN after.available_tokens - balance_before ELSE 0,
                balance_before, after.available_tokens, req.admin)
    IN  IF s = NoRow
        THEN Outcome(NewSubscription(new_tier, t), <<>>, TRUE,
                Response(req.kind, req.user, 200, TRUE, 0, 0, 0))
        ELSE Outcome(after, <<transaction>>, TRUE,
                Response(req.kind, req.user, 200, TRUE, 0, 0, 0))

\* topup_user_tokens without the check of a deduction against the balance
topup_user_tokens_NoBalanceCheck(s, req) ==
    LET balance_before == s.available_tokens
        after == [s EXCEPT !.available_tokens = @ + req.amount,
                           !.total_tokens = @ + req.amount]
        is_topup == req.amount > 0
        transaction ==
            TokenTransaction(req.user,
                IF is_topup THEN "topup" ELSE "admin_deduction",
                req.amount, balance_before, after.available_tokens, req.admin)
    IN  IF is_unlimited(s)
        THEN Outcome(s, <<>>, FALSE, Reject(req, 400))
        ELSE Outcome(after, <<transaction>>, TRUE,
                Response(req.kind, req.user, 200, TRUE, 0, 0, 0))

\* topup_user_tokens without the check for the unlimited tier
topup_user_tokens_NoUnlimitedCheck(s, req) ==
    LET balance_before == s.available_tokens
        new_available == s.available_tokens + req.amount
        after == [s EXCEPT !.available_tokens = @ + req.amount,
                           !.total_tokens = @ + req.amount]
        is_topup == req.amount > 0
        transaction ==
            TokenTransaction(req.user,
                IF is_topup THEN "topup" ELSE "admin_deduction",
                req.amount, balance_before, after.available_tokens, req.admin)
    IN  IF req.amount < 0 /\ new_available < 0
        THEN Outcome(s, <<>>, FALSE, Reject(req, 400))
        ELSE Outcome(after, <<transaction>>, TRUE,
                Response(req.kind, req.user, 200, TRUE, 0, 0, 0))

topup_user_tokens(s, req) ==
    LET balance_before == s.available_tokens
        new_available == s.available_tokens + req.amount
        after == [s EXCEPT !.available_tokens = @ + req.amount,
                           !.total_tokens = @ + req.amount]
        is_topup == req.amount > 0
        transaction ==
            TokenTransaction(req.user,
                IF is_topup THEN "topup" ELSE "admin_deduction",
                req.amount, balance_before, after.available_tokens, req.admin)
    IN  IF is_unlimited(s)
        THEN Outcome(s, <<>>, FALSE, Reject(req, 400))
        ELSE IF req.amount < 0 /\ new_available < 0
        THEN Outcome(s, <<>>, FALSE, Reject(req, 400))
        ELSE Outcome(after, <<transaction>>, TRUE,
                Response(req.kind, req.user, 200, TRUE, 0, 0, 0))

\* reset_user_billing_period that adds the tier limit to the balance
reset_user_billing_period_AddsLimit(s, req, t) ==
    LET balance_before == s.available_tokens
        token_limit == TIER_TOKEN_LIMITS[s.tier]
        after ==
            [s EXCEPT !.period_start = t,
                      !.period_end = t + PERIOD_DAYS,
                      !.consumed_tokens = 0,
                      !.available_tokens = IF token_limit # -1 THEN @ + token_limit ELSE @]
        transaction ==
            TokenTransaction(req.user, "reset",
                IF token_limit # -1
                THEN after.available_tokens - balance_before ELSE 0,
                balance_before, after.available_tokens, req.admin)
    IN  Outcome(after, <<transaction>>, TRUE,
            Response(req.kind, req.user, 200, TRUE, 0, 0, 0))

reset_user_billing_period(s, req, t) ==
    LET balance_before == s.available_tokens
        token_limit == TIER_TOKEN_LIMITS[s.tier]
        after ==
            [s EXCEPT !.period_start = t,
                      !.period_end = t + PERIOD_DAYS,
                      !.consumed_tokens = 0,
                      !.total_tokens = IF token_limit # -1 THEN token_limit ELSE @,
                      !.available_tokens = IF token_limit # -1 THEN token_limit ELSE @]
        transaction ==
            TokenTransaction(req.user, "reset",
                IF token_limit # -1
                THEN after.available_tokens - balance_before ELSE 0,
                balance_before, after.available_tokens, req.admin)
    IN  Outcome(after, <<transaction>>, TRUE,
            Response(req.kind, req.user, 200, TRUE, 0, 0, 0))

\* the checks a handler makes before it reads the subscription row:
\* 0 when they pass, else the status it answers
Validate(req) ==
    CASE req.kind \in ConsumeKinds ->
            IF is_valid_operation(req.operation) THEN 0
            ELSE IF req.kind = "consume" THEN 400 ELSE 500
      [] req.kind = "tier" ->
            IF req.tier \notin SubscriptionTier THEN 400
            ELSE IF req.user \notin Users THEN 404 ELSE 0
      [] OTHER -> IF req.user \notin Users THEN 404 ELSE 0

\* the handler's body once the row is loaded
Handle(s, req, t) ==
    CASE req.kind \in ConsumeKinds -> consume_tokens_internal(s, req)
      [] req.kind = "tier" -> update_user_subscription_tier(s, req, t)
      [] req.kind = "topup" ->
            IF s = NoRow THEN Outcome(s, <<>>, FALSE, Reject(req, 404))
            ELSE topup_user_tokens(s, req)
      [] req.kind = "reset" ->
            IF s = NoRow THEN Outcome(s, <<>>, FALSE, Reject(req, 404))
            ELSE reset_user_billing_period(s, req, t)

\* ---------------------------------------------------------------- session
\* the UPDATE of a flush sets the columns whose value differs from the loaded
\* one; an INSERT puts the whole row
Flush(cur, snap, new) ==
    IF snap = NoRow THEN new
    ELSE [c \in Columns |-> IF new[c] # snap[c] THEN new[c] ELSE cur[c]]

\* user_subscriptions.user_id is unique: an INSERT for a user who has a row fails
Conflicts(cur, snap) == snap = NoRow /\ cur # NoRow

\* after a commit the session's objects are expired: the balance an answer
\* reports is read back from the table
Answer(r, row) ==
    IF r.kind = "consume"
    THEN [r EXCEPT !.availableTokens = row.available_tokens,
                   !.consumedTokens = row.consumed_tokens]
    ELSE r


Session(pc, req, snap, r, peers) ==
    [pc |-> pc, req |-> req, snap |-> snap, resp |-> r, peers |-> peers]

NoRequest == Request("none", "-", "-", "-", 0, "-")

Idle == Session("idle", NoRequest, NoRow, NoResponse, {})

\* the state of the Celery worker: the step its task is at and the job id
\* it was called with; elapsed is time.time() - start_time of its polling
Task(pc, job_id, elapsed) == [pc |-> pc, job_id |-> job_id, elapsed |-> elapsed]

NoTask == Task("idle", 0, 0)

\* a call of gemini_service by a generation endpoint
Call(endpoint, user) == [endpoint |-> endpoint, user |-> user]

NoCall == Call("none", "-")

Init ==
    /\ subs = [u \in Users |-> NoRow]
    /\ transactions = <<>>
    /\ now = 0
    /\ resp = NoResponse
    /\ sess = [p \in Procs |-> Idle]
    /\ video_jobs = <<>>
    /\ look_videos = {}
    /\ queue = {}
    /\ work = NoTask
    /\ invoked = NoCall

\* datetime.utcnow() is read by the code that inserts a subscription and by
\* the tier and reset handlers; the clock (in days) moves on after a reading
ReadsClock(req, created, o) ==
    created \/ (req.kind \in {"tier", "reset"} /\ o.commit)

\* ------------------------------------------- one handler, start to commit
Serve(req) ==
    LET v == Validate(req)
        u == req.user
        created == req.kind \in ConsumeKinds /\ subs[u] = NoRow
        S1 == IF created
              THEN [subs EXCEPT ![u] = get_or_create_subscription(subs[u], now)]
              ELSE subs
        snap == S1[u]
        o == Handle(snap, req, now)
        S2 == [S1 EXCEPT ![u] = Flush(S1[u], snap, o.row)]
    IN  /\ UNCHANGED <<sess, jobvars>>
        /\ IF v # 0
           THEN /\ resp' = Reject(req, v)
                /\ UNCHANGED <<subs, transactions, now>>
           ELSE /\ now' = IF ReadsClock(req, created, o) THEN now + 1 ELSE now
                /\ IF o.commit
                   THEN /\ Len(transactions) + Len(o.txns) <= MaxTxns
                        /\ subs' = S2
                        /\ transactions' = transactions \o o.txns
                        /\ resp' = Answer(o.resp, S2[u])
                   ELSE /\ subs' = S1
                        /\ resp' = o.resp
                        /\ UNCHANGED transactions

\* POST /subscription/consume
ConsumeTokens ==
    \E r \in Requests : r.kind = "consume" /\ Serve(r)

\* consume_tokens_internal, called by the generation endpoints
ConsumeTokensInternal ==
    \E r \in Requests : r.kind = "consume_internal" /\ Serve(r)

\* PUT /users/{user_id}/subscription/tier
UpdateTier ==
    \E r \in Requests : r.kind = "tier" /\ Serve(r)

\* POST /users/{user_id}/subscription/topup
Topup ==
    \E r \in Requests : r.kind = "topup" /\ Serve(r)

\* POST /users/{user_id}/subscription/reset-period
ResetPeriod ==
    \E r \in Requests : r.kind = "reset" /\ Serve(r)

Next ==
    \/ ConsumeTokens
    \/ ConsumeTokensInternal
    \/ UpdateTier
    \/ Topup
    \/ ResetPeriod

Spec == Init /\ [][Next]_vars


\* ------------------------------------ handlers of several server processes
\* Every request has its own session (get_db).  Between the SELECT that loads
\* the subscription row and the commit there is no lock (no SELECT ... FOR
\* UPDATE, no version column), so requests served by different processes
\* interleave at these statements.
ConcRequests ==
    {Request("consume_internal", "u1", o, "-", 0, "-") : o \in {"multi_modal", "text_to_text"}}
    \cup {Request("tier", "u1", "-", "free", 0, "admin"),
          Request("tier", "u1", "-", "ultimate", 0, "admin"),
          Request("topup", "u1", "-", "-", -95, "admin"),
          Request("reset", "u1", "-", "-", 0, "admin")}

\* the requests on the same row whose SELECT..commit windows overlap p's
Overlapping(p) ==
    {q \in Procs \ {p} : /\ sess[q].pc = "loaded"
                         /\ sess[q].req.user = sess[p].req.user}

\* the handler validates its request and SELECTs the subscription row
Begin(p, req) ==
    LET v == Validate(req)
        snap == subs[req.user]
    IN  /\ sess[p].pc = "idle"
        /\ IF v # 0
           THEN sess' = [sess EXCEPT ![p] = Session("done", NoRequest, NoRow, Reject(req, v), {})]
           ELSE /\ sess' = [sess EXCEPT ![p] =
                        Session(IF req.kind \in ConsumeKinds /\ snap = NoRow
                                THEN "create" ELSE "loaded",
                                req, snap, NoResponse, {})]
        /\ UNCHANGED <<subs, transactions, now, resp, jobvars>>

\* get_or_create_subscription found no row: INSERT, commit, refresh
Create(p) ==
    LET u == sess[p].req.user
        new == get_or_create_subscription(sess[p].snap, now)
        r == Reject(sess[p].req, 500)
    IN  /\ sess[p].pc = "create"
        /\ IF Conflicts(subs[u], sess[p].snap)
           THEN /\ sess' = [sess EXCEPT ![p].pc = "done", ![p].req = NoRequest,
                                         ![p].resp = r]
                /\ UNCHANGED <<subs, now>>
           ELSE /\ subs' = [subs EXCEPT ![u] = new]
                /\ now' = now + 1
                /\ sess' = [sess EXCEPT ![p].pc = "loaded", ![p].snap = new]
        /\ UNCHANGED <<transactions, resp, jobvars>>

\* the rest of the handler: its checks on the loaded row, its changes, commit
Commit(p) ==
    LET req == sess[p].req
        u == req.user
        snap == sess[p].snap
        o == Handle(snap, req, now)
        S2 == [subs EXCEPT ![u] = Flush(subs[u], snap, o.row)]
        done(r, peers) ==
            [q \in Procs |->
                IF q = p THEN [sess[p] EXCEPT !.pc = "done", !.req = NoRequest,
                                              !.resp = r,
                                              !.peers = @ \cup peers]
                ELSE IF q \in peers THEN [sess[q] EXCEPT !.peers = @ \cup {p}]
                ELSE sess[q]]
    IN  /\ sess[p].pc = "loaded"
        /\ IF ~o.commit
           THEN /\ sess' = done(o.resp, {})
                /\ UNCHANGED <<subs, transactions, now>>
           ELSE IF Conflicts(subs[u], snap)
           THEN /\ sess' = done(Reject(req, 500), {})
                /\ UNCHANGED <<subs, transactions, now>>
           ELSE /\ Len(transactions) + Len(o.txns) <= MaxConcTxns
                /\ subs' = S2
                /\ transactions' = transactions \o o.txns
                /\ now' = IF ReadsClock(req, FALSE, o) THEN now + 1 ELSE now
                /\ sess' = done(Answer(o.resp, S2[u]), Overlapping(p))
        /\ UNCHANGED <<resp, jobvars>>

\* the answer (sess[p].resp) is sent and the session closed
Return(p) ==
    /\ sess[p].pc = "done"
    /\ sess' = [sess EXCEPT ![p] = Idle]
    /\ UNCHANGED <<subs, transactions, now, resp, jobvars>>

NextConc ==
    \/ \E p \in Procs, req \in ConcRequests : Begin(p, req)
    \/ \E p \in Procs : Create(p)
    \/ \E p \in Procs : Commit(p)
    \/ \E p \in Procs : Return(p)

ConcSpec == Init /\ [][NextConc]_vars


\* ===================================================== generation endpoints
\* the operation each endpoint of gemini.py consumes for
GenerationOperation ==
    [generate_text |-> "text_to_text",
     generate_image |-> "multi_modal",
     generate_imagen |-> "text_to_image",
     generate_json |-> "text_to_text",
     grounded_search |-> "text_to_text"]

\* a generation endpoint that calls gemini_service whatever the consume said
generate_CallsAnyway(u, endpoint, valid, service_up) ==
    LET req == Request("consume_internal", u, GenerationOperation[endpoint],
                       "-", 0, "-")
        created == subs[u] = NoRow
        S1 == [subs EXCEPT ![u] = get_or_create_subscription(subs[u], now)]
        o == consume_tokens_internal(S1[u], req)
        S2 == [S1 EXCEPT ![u] = Flush(S1[u], S1[u], o.row)]
        token_result == Answer(o.resp, S2[u])
        answer(status) == Response(endpoint, u, status, status = 200,
                                   token_result.cost,
                                   token_result.availableTokens, 0)
    IN  /\ UNCHANGED <<sess, video_jobs, look_videos, queue, work>>
        /\ IF endpoint = "generate_image" /\ ~valid
           THEN /\ resp' = Response(endpoint, u, 422, FALSE, 0, 0, 0)
                /\ invoked' = NoCall
                /\ UNCHANGED <<subs, transactions, now>>
           ELSE /\ now' = IF created THEN now + 1 ELSE now
                /\ invoked' = Call(endpoint, u)
                /\ resp' = answer(IF service_up THEN 200 ELSE 500)
                /\ IF ~token_result.success
                   THEN /\ subs' = S1
                        /\ UNCHANGED transactions
                   ELSE /\ Len(transactions) + Len(o.txns) <= MaxTxns
                        /\ subs' = S2
                        /\ transactions' = transactions \o o.txns

\* POST /gemini/generate-text, generate-image, generate-imagen,
\* generate-json, grounded-search.  valid: the body fits the schema
\* (generate_image checks it itself); service_up: gemini_service returns
generate(u, endpoint, valid, service_up) ==
    LET req == Request("consume_internal", u, GenerationOperation[endpoint],
                       "-", 0, "-")
        created == subs[u] = NoRow
        S1 == [subs EXCEPT ![u] = get_or_create_subscription(subs[u], now)]
        o == consume_tokens_internal(S1[u], req)
        S2 == [S1 EXCEPT ![u] = Flush(S1[u], S1[u], o.row)]
        token_result == Answer(o.resp, S2[u])
        answer(status) == Response(endpoint, u, status, status = 200,
                                   token_result.cost,
                                   token_result.availableTokens, 0)
    IN  /\ UNCHANGED <<sess, video_jobs, look_videos, queue, work>>
        /\ IF endpoint = "generate_image" /\ ~valid
           THEN /\ resp' = Response(endpoint, u, 422, FALSE, 0, 0, 0)
                /\ invoked' = NoCall
                /\ UNCHANGED <<subs, transactions, now>>
           ELSE /\ now' = IF created THEN now + 1 ELSE now
                /\ IF ~token_result.success
                   THEN /\ resp' = answer(402)
                        /\ invoked' = NoCall
                        /\ subs' = S1
                        /\ UNCHANGED transactions
                   ELSE /\ Len(transactions) + Len(o.txns) <= MaxTxns
                        /\ subs' = S2
                        /\ transactions' = transactions \o o.txns
                        /\ invoked' = Call(endpoint, u)
                        /\ resp' = answer(IF service_up THEN 200 ELSE 500)

\* ============================================================ video jobs
MaxJobs == 3        \* rows of video_jobs a behaviour of SubmitSpec may insert
MaxWorkerJobs == 1  \* rows of video_jobs a behaviour of JobSpec may insert

\* Column(Integer, default=50) of VideoJob.tokens_consumed
DEFAULT_TOKENS_CONSUMED == 50

\* create_video_job: "if running_jobs_count >= 3"
MAX_CONCURRENT_JOBS == 3

\* max_wait_seconds of the worker's polling loop
MAX_WAIT_SECONDS == 900

\* the looks table: one look, of u1
Looks == {"l1"}

LookOwner == [l \in Looks |-> "u1"]

\* a row of video_jobs; its id is its index in video_jobs
VideoJob(user_id, status, tokens_consumed) ==
    [user_id |-> user_id, status |-> status,
     progress_percentage |-> 0, error_message |-> "",
     cloudinary_url |-> "", tokens_consumed |-> tokens_consumed]

\* the place of a row that was deleted
NoJob == [status |-> "none"]

JobIds == 1..Len(video_jobs)

\* the jobs counted by create_video_job: status.in_(["PENDING", "RUNNING"])
RunningJobs(u) ==
    {j \in JobIds : /\ video_jobs[j].status \in {"PENDING", "RUNNING"}
                    /\ video_jobs[j].user_id = u}

\* the form of a submission: complete, without prompt and initial image,
\* with a resolution that is not 720p or 1080p
SubmitForms == {"valid", "no_prompt", "bad_resolution"}

\* POST /video-jobs.  broker_up: whether process_video_generation.delay
\* reaches the broker
create_video_job(u, form, broker_up) ==
    LET req == Request("consume_internal", u, "video_generation", "-", 0, "-")
        v == Validate(req)
        created == subs[u] = NoRow
        S1 == [subs EXCEPT ![u] = get_or_create_subscription(subs[u], now)]
        o == consume_tokens_internal(S1[u], req)
        S2 == [S1 EXCEPT ![u] = Flush(S1[u], S1[u], o.row)]
        token_result == Answer(o.resp, S2[u])
        running_jobs_count == Cardinality(RunningJobs(u))
        new_job == VideoJob(u, "PENDING", token_result.consumedTokens)
        failed == [new_job EXCEPT !.status = "FAILED",
                                  !.error_message = "Failed to queue job"]
        answer(status) ==
            Response("submit", u, status, status = 202, 0, 0, 0)
    IN  /\ UNCHANGED <<sess, invoked, look_videos, work>>
        /\ IF v # 0
           THEN /\ resp' = answer(v)
                /\ UNCHANGED <<subs, transactions, now, video_jobs, queue>>
           ELSE /\ now' = IF created THEN now + 1 ELSE now
                /\ IF ~token_result.success
                   THEN /\ resp' = Response("submit", u, 402, FALSE,
                                        token_result.cost,
                                        token_result.availableTokens, 0)
                        /\ subs' = S1
                        /\ UNCHANGED <<transactions, video_jobs, queue>>
                   ELSE /\ Len(transactions) + Len(o.txns) <= MaxTxns
                        /\ subs' = S2
                        /\ transactions' = transactions \o o.txns
                        /\ IF running_jobs_count >= MAX_CONCURRENT_JOBS
                           THEN /\ resp' = answer(429)
                                /\ UNCHANGED <<video_jobs, queue>>
                           ELSE IF form # "valid"
                           THEN /\ resp' = answer(400)
                                /\ UNCHANGED <<video_jobs, queue>>
                           ELSE /\ Len(video_jobs) < MaxJobs
                                /\ IF broker_up
                                   THEN /\ video_jobs' = Append(video_jobs, new_job)
                                        /\ queue' = queue \cup {Len(video_jobs) + 1}
                                        /\ resp' = answer(202)
                                   ELSE /\ video_jobs' = Append(video_jobs, failed)
                                        /\ queue' = queue
                                        /\ resp' = answer(500)

\* POST /looks/{look_id}/videos
create_video_from_look(u, look_id) ==
    LET new_video == VideoJob(u, "PENDING", DEFAULT_TOKENS_CONSUMED)
        id == Len(video_jobs) + 1
    IN  /\ UNCHANGED <<subs, transactions, now, sess, invoked, queue, work>>
        /\ IF look_id \notin Looks
           THEN /\ resp' = Response("look_video", u, 404, FALSE, 0, 0, 0)
                /\ UNCHANGED <<video_jobs, look_videos>>
           ELSE IF LookOwner[look_id] # u
           THEN /\ resp' = Response("look_video", u, 403, FALSE, 0, 0, 0)
                /\ UNCHANGED <<video_jobs, look_videos>>
           ELSE /\ video_jobs' = Append(video_jobs, new_video)
                /\ look_videos' = look_videos \cup
                      {[look_id |-> look_id, video_job_id |-> id,
                        is_default |-> FALSE]}
                /\ resp' = Response("look_video", u, 201, TRUE, 0, 0, 0)

\* the rows of look_videos of one look and one job
Associations(look_id, job_id) ==
    {a \in look_videos : a.look_id = look_id /\ a.video_job_id = job_id}

\* DELETE /looks/{look_id}/videos/{video_id}
delete_look_video(u, look_id, video_id) ==
    /\ UNCHANGED <<subs, transactions, now, sess, invoked, queue, work>>
    /\ IF look_id \notin Looks
       THEN /\ resp' = Response("delete_look_video", u, 404, FALSE, 0, 0, 0)
            /\ UNCHANGED <<video_jobs, look_videos>>
       ELSE IF LookOwner[look_id] # u
       THEN /\ resp' = Response("delete_look_video", u, 403, FALSE, 0, 0, 0)
            /\ UNCHANGED <<video_jobs, look_videos>>
       ELSE IF Associations(look_id, video_id) = {}
       THEN /\ resp' = Response("delete_look_video", u, 404, FALSE, 0, 0, 0)
            /\ UNCHANGED <<video_jobs, look_videos>>
       ELSE /\ look_videos' = look_videos \ Associations(look_id, video_id)
            /\ video_jobs' =
                  IF video_id \in JobIds /\ video_jobs[video_id] # NoJob
                  THEN [video_jobs EXCEPT ![video_id].status = "DELETED"]
                  ELSE video_jobs
            /\ resp' = Response("delete_look_video", u, 204, TRUE, 0, 0, 0)

\* delete_video_job that gives the job's tokens_consumed back to its owner
delete_video_job_Refunds(u, job_id) ==
    /\ UNCHANGED <<transactions, now, sess, invoked, queue, work>>
    /\ IF job_id \in JobIds /\ video_jobs[job_id] # NoJob
          /\ video_jobs[job_id].user_id = u
       THEN /\ video_jobs' = [video_jobs EXCEPT ![job_id] = NoJob]
            /\ look_videos' = {a \in look_videos : a.video_job_id # job_id}
            /\ subs' = IF subs[u] = NoRow THEN subs
                       ELSE [subs EXCEPT ![u].available_tokens =
                                @ + video_jobs[job_id].tokens_consumed]
            /\ resp' = Response("delete_video_job", u, 204, TRUE, 0, 0, 0)
       ELSE /\ resp' = Response("delete_video_job", u, 404, FALSE, 0, 0, 0)
            /\ UNCHANGED <<subs, video_jobs, look_videos>>

\* DELETE /video-jobs/{job_id}; the rows of look_videos of the job go with
\* it (secondary of Look.videos, ondelete CASCADE)
delete_video_job(u, job_id) ==
    /\ UNCHANGED <<subs, transactions, now, sess, invoked, queue, work>>
    /\ IF job_id \in JobIds /\ video_jobs[job_id] # NoJob
          /\ video_jobs[job_id].user_id = u
       THEN /\ video_jobs' = [video_jobs EXCEPT ![job_id] = NoJob]
            /\ look_videos' = {a \in look_videos : a.video_job_id # job_id}
            /\ resp' = Response("delete_video_job", u, 204, TRUE, 0, 0, 0)
       ELSE /\ resp' = Response("delete_video_job", u, 404, FALSE, 0, 0, 0)
            /\ UNCHANGED <<video_jobs, look_videos>>

\* ---------------------------------------------------------------- worker
\* process_video_generation is one task of one worker process.  Each action
\* below is the code between two commits.  A commit is an UPDATE of the
\* columns the code assigned; when the row is gone (delete_video_job) the
\* UPDATE raises, the handlers of the exception cannot commit either, and
\* the task ends without a write.
Commits(jobs, task) ==
    IF video_jobs[work.job_id] = NoJob
    THEN /\ video_jobs' = video_jobs
         /\ work' = NoTask
    ELSE /\ video_jobs' = jobs
         /\ work' = task

\* an except branch that records the message and returns without the status
Fails_KeepsStatus(error_message) ==
    Commits([video_jobs EXCEPT ![work.job_id].error_message = error_message],
            NoTask)

\* an except branch that sets the status and drops the message
Fails_NoMessage(error_message) ==
    Commits([video_jobs EXCEPT ![work.job_id].status = "FAILED"], NoTask)

\* job.status = "FAILED", job.error_message = ..., db.commit(), return
Fails(error_message) ==
    Commits([video_jobs EXCEPT ![work.job_id].status = "FAILED",
                               ![work.job_id].error_message = error_message],
            NoTask)

\* job.progress_percentage = p, db.commit(), on to the step pc
Progress(p, pc) ==
    Commits([video_jobs EXCEPT ![work.job_id].progress_percentage = p],
            Task(pc, work.job_id, work.elapsed))

\* the task is called with job_id (the argument of a message of the queue;
\* the task looks the id up itself): lines 58-73
process_video_generation(job_id) ==
    /\ work.pc = "idle"
    /\ IF video_jobs[job_id] = NoJob
       THEN UNCHANGED <<video_jobs, work>>
       ELSE /\ video_jobs' = [video_jobs EXCEPT
                                ![job_id].status = "RUNNING",
                                ![job_id].progress_percentage = 5]
            /\ work' = Task("started", job_id, 0)
    /\ UNCHANGED <<subs, transactions, now, resp, sess, invoked, look_videos, queue>>

\* lines 75-84
LogJobDetails ==
    /\ work.pc = "started"
    /\ Progress(10, "prepared")
    /\ UNCHANGED <<subs, transactions, now, resp, sess, invoked, look_videos, queue>>

\* lines 86-244: the call of generate_videos
StartGeneration ==
    /\ work.pc = "prepared"
    /\ \E outcome \in {"started", "api_error", "no_client"} :
          CASE outcome = "started" -> Progress(15, "polling")
            [] outcome = "api_error" -> Fails("Failed to start generation")
            [] outcome = "no_client" -> Fails("Unexpected error")
    /\ UNCHANGED <<subs, transactions, now, resp, sess, invoked, look_videos, queue>>

\* the times at which the polling loop looks at the operation
ElapsedSamples == {10, 450, 890}

\* min(15 + int((elapsed / max_wait_seconds) * 50), 65)
PollProgress(elapsed) ==
    LET progress == 15 + (elapsed * 50) \div MAX_WAIT_SECONDS
    IN  IF progress < 65 THEN progress ELSE 65

\* lines 246-323: one round of the polling loop
Poll ==
    /\ work.pc = "polling"
    /\ \/ Progress(70, "generated")
       \/ Fails("Generation failed")
       \/ \E elapsed \in ElapsedSamples :
             /\ elapsed > work.elapsed
             /\ Commits([video_jobs EXCEPT ![work.job_id].progress_percentage =
                                              PollProgress(elapsed)],
                        Task("polling", work.job_id, elapsed))
    /\ UNCHANGED <<subs, transactions, now, resp, sess, invoked, look_videos, queue>>

\* lines 325-328
DownloadBegins ==
    /\ work.pc = "generated"
    /\ Progress(75, "downloading")
    /\ UNCHANGED <<subs, transactions, now, resp, sess, invoked, look_videos, queue>>

\* lines 330-355
Download ==
    /\ work.pc = "downloading"
    /\ \/ Progress(85, "downloaded")
       \/ Fails("Failed to download video")
    /\ UNCHANGED <<subs, transactions, now, resp, sess, invoked, look_videos, queue>>

\* lines 357-361
UploadBegins ==
    /\ work.pc = "downloaded"
    /\ Progress(90, "uploading")
    /\ UNCHANGED <<subs, transactions, now, resp, sess, invoked, look_videos, queue>>

\* lines 363-409: upload_video_to_cloudinary, then the last commit
Upload ==
    /\ work.pc = "uploading"
    /\ \/ Commits([video_jobs EXCEPT
                     ![work.job_id].cloudinary_url = "url",
                     ![work.job_id].status = "SUCCEEDED",
                     ![work.job_id].progress_percentage = 100],
                  NoTask)
       \/ Fails("Failed to upload video")
    /\ UNCHANGED <<subs, transactions, now, resp, sess, invoked, look_videos, queue>>

\* ----------------------------------------------- the API of the video jobs
\* the requests on the subscription that are served next to the video jobs
JobRequests ==
    {Request("tier", "u1", "-", "free", 0, "admin"),
     Request("topup", "u1", "-", "-", -95, "admin")}

Subscription ==
    \E r \in JobRequests : Serve(r)

CreateVideoJob ==
    \E form \in SubmitForms, broker_up \in BOOLEAN :
        create_video_job("u1", form, broker_up)

CreateVideoFromLook ==
    /\ Len(video_jobs) < MaxJobs
    /\ \E look_id \in Looks : create_video_from_look("u1", look_id)

DeleteLookVideo ==
    \E look_id \in Looks, video_id \in JobIds :
        delete_look_video("u1", look_id, video_id)

DeleteVideoJob ==
    \E job_id \in JobIds : delete_video_job("u1", job_id)

\* the API of the video jobs next to the subscription's, without the worker
NextSubmit ==
    \/ Subscription
    \/ CreateVideoJob
    \/ CreateVideoFromLook
    \/ DeleteLookVideo
    \/ DeleteVideoJob

SubmitSpec == Init /\ [][NextSubmit]_vars

\* ------------------------------------------- the video jobs and the worker
CreateVideoForWorker ==
    /\ Len(video_jobs) < MaxWorkerJobs
    /\ \E look_id \in Looks : create_video_from_look("u1", look_id)

ProcessVideoGeneration ==
    \E job_id \in JobIds : process_video_generation(job_id)

NextJobs ==
    \/ CreateVideoJob
    \/ CreateVideoForWorker
    \/ DeleteLookVideo
    \/ DeleteVideoJob
    \/ ProcessVideoGeneration
    \/ LogJobDetails
    \/ StartGeneration
    \/ Poll
    \/ DownloadBegins
    \/ Download
    \/ UploadBegins
    \/ Upload

JobSpec == Init /\ [][NextJobs]_vars

\* the steps of a task that has started; the worker process runs them one
\* after the other until the task returns
WorkerStep ==
    \/ LogJobDetails
    \/ StartGeneration
    \/ Poll
    \/ DownloadBegins
    \/ Download
    \/ UploadBegins
    \/ Upload

\* a worker process that keeps running the task it has started
FairJobSpec == JobSpec /\ WF_vars(WorkerStep)


\* ------------------------- the video jobs and the worker, with a subscription
MaxVideoTxns == 1   \* rows of token_transactions a behaviour of DeleteSpec may write

\* the owner of the jobs consumes tokens
OwnerConsumes ==
    /\ Len(transactions) < MaxVideoTxns
    /\ Serve(Request("consume_internal", "u1", "multi_modal", "-", 0, "-"))

NextDelete ==
    \/ OwnerConsumes
    \/ NextJobs

DeleteSpec == Init /\ [][NextDelete]_vars

\* ------------------------------------- the endpoints that generate content
Generate ==
    \E endpoint \in DOMAIN GenerationOperation, valid, service_up \in BOOLEAN :
        generate("u1", endpoint, valid, service_up)

NextGenerate ==
    \/ Subscription
    \/ Generate
    \/ CreateVideoJob

GenerateSpec == Init /\ [][NextGenerate]_vars

\* ------------------------------------------------- the default video of a look
MaxLookVideos == 2  \* rows of video_jobs a behaviour of DefaultSpec may insert

\* the requests about the default video of a look
DefaultKinds == {"set_default", "unset_default", "set_default_video"}

DefaultRequest(kind, user, job_id, look_id) ==
    [kind |-> kind, user |-> user, job_id |-> job_id, look_id |-> look_id]

DefaultResponse(req, status) ==
    [kind |-> req.kind, user |-> req.user, status |-> status,
     success |-> status \in {200, 204},
     job_id |-> req.job_id, look_id |-> req.look_id]

\* set_video_as_default without "Unset any existing default for this look"
set_video_as_default_NoUnset(rows, job_id, look_id) ==
    {IF a.look_id = look_id /\ a.video_job_id = job_id
     THEN [a EXCEPT !.is_default = TRUE] ELSE a : a \in rows}

\* the two UPDATEs of set_video_as_default (and of set_default_video)
set_video_as_default(rows, job_id, look_id) ==
    LET unset == {IF a.look_id = look_id
                  THEN [a EXCEPT !.is_default = FALSE] ELSE a : a \in rows}
    IN  {IF a.look_id = look_id /\ a.video_job_id = job_id
         THEN [a EXCEPT !.is_default = TRUE] ELSE a : a \in unset}

\* the UPDATE of unset_video_as_default
unset_video_as_default(rows, job_id, look_id) ==
    {IF a.look_id = look_id /\ a.video_job_id = job_id
     THEN [a EXCEPT !.is_default = FALSE] ELSE a : a \in rows}

\* the SELECTs a handler makes before its UPDATEs: 0 when they pass, else
\* the status it answers
DefaultChecks(req) ==
    LET owns_job == /\ req.job_id \in JobIds
                    /\ video_jobs[req.job_id] # NoJob
                    /\ video_jobs[req.job_id].user_id = req.user
        owns_look == req.look_id \in Looks /\ LookOwner[req.look_id] = req.user
        associated == Associations(req.look_id, req.job_id) # {}
    IN  IF req.kind = "set_default_video"
        THEN IF req.look_id \notin Looks THEN 404
             ELSE IF ~owns_look THEN 403
             ELSE IF ~associated THEN 404 ELSE 0
        ELSE IF ~owns_job THEN 404
             ELSE IF ~owns_look THEN 403
             ELSE IF ~associated THEN 400 ELSE 0

\* a handler starts: its checks, on the rows as they are now
BeginDefault(p, req) ==
    LET v == DefaultChecks(req)
    IN  /\ sess[p].pc = "idle"
        /\ sess' = [sess EXCEPT ![p] =
                      IF v # 0
                      THEN Session("done", NoRequest, NoRow, DefaultResponse(req, v), {})
                      ELSE Session("checked", req, NoRow, NoResponse, {})]
        /\ UNCHANGED <<subs, transactions, now, resp, jobvars>>

\* its UPDATEs and its commit: one transaction, on the rows as they are now
CommitDefault(p) ==
    LET req == sess[p].req
    IN  /\ sess[p].pc = "checked"
        /\ look_videos' =
              IF req.kind = "unset_default"
              THEN unset_video_as_default(look_videos, req.job_id, req.look_id)
              ELSE set_video_as_default(look_videos, req.job_id, req.look_id)
        /\ sess' = [sess EXCEPT ![p] =
                      Session("done", NoRequest, NoRow,
                              DefaultResponse(req, IF req.kind = "set_default_video"
                                                   THEN 204 ELSE 200), {})]
        /\ UNCHANGED <<subs, transactions, now, resp, video_jobs, queue, work, invoked>>

CreateLookVideo ==
    /\ Len(video_jobs) < MaxLookVideos
    /\ \E look_id \in Looks : create_video_from_look("u1", look_id)

NextDefault ==
    \/ CreateLookVideo
    \/ DeleteLookVideo
    \/ DeleteVideoJob
    \/ \E p \in Procs, kind \in DefaultKinds, job_id \in JobIds, look_id \in Looks :
          BeginDefault(p, DefaultRequest(kind, "u1", job_id, look_id))
    \/ \E p \in Procs : CommitDefault(p)
    \/ \E p \in Procs : Return(p)

DefaultSpec == Init /\ [][NextDefault]_vars

\* ================================================================ claims
HasRow(u) == subs[u] # NoRow

Limited(u) == HasRow(u) /\ ~is_unlimited(subs[u])

LastTxn == transactions[Len(transactions)]

ConsumeRequests == {r \in Requests : r.kind \in ConsumeKinds /\ Validate(r) = 0}

TierRequests == {r \in Requests : r.kind = "tier" /\ Validate(r) = 0}

TopupRequests == {r \in Requests : r.kind = "topup" /\ Validate(r) = 0}

\* the row a consume handler works on: the stored one, or the one it creates
Loaded(u) == get_or_create_subscription(subs[u], now)

\* C1: after every consume, admin credit/deduction and period reset, a
\* subscription whose tier is not ultimate has
\* availableTokens + consumedTokens = totalTokens
C1_BalanceInvariant ==
    \A u \in Users :
        Limited(u) =>
            subs[u].available_tokens + subs[u].consumed_tokens = subs[u].total_tokens

\* a limited subscription that was both consumed from and adjusted by an admin
C1_Witness ==
    \E u \in Users :
        /\ Limited(u)
        /\ subs[u].consumed_tokens > 0
        /\ subs[u].total_tokens # TIER_TOKEN_LIMITS[subs[u].tier]
        /\ Len(transactions) = 2

\* C2: two consume requests for the same user that overlap, both having read
\* a balance that covers either cost but not both, do not both succeed
C2_AtMostOneSucceeds ==
    \A p, q \in Procs :
        ( /\ p # q
          /\ sess[p].pc = "done" /\ sess[q].pc = "done"
          /\ q \in sess[p].peers
          /\ sess[p].resp.kind = "consume" /\ sess[q].resp.kind = "consume"
          /\ sess[p].resp.user = sess[q].resp.user
          /\ sess[p].snap # NoRow /\ sess[q].snap # NoRow
          /\ ~is_unlimited(sess[p].snap) /\ ~is_unlimited(sess[q].snap)
          /\ sess[p].snap.available_tokens = sess[q].snap.available_tokens
          /\ sess[p].resp.cost <= sess[p].snap.available_tokens
          /\ sess[q].resp.cost <= sess[p].snap.available_tokens
          /\ sess[p].resp.cost + sess[q].resp.cost > sess[p].snap.available_tokens )
        => ~(sess[p].resp.success /\ sess[q].resp.success)

\* C3: a consume whose cost exceeds the balance of a limited subscription
\* answers success = false, changes no row and writes no transaction; and no
\* consume leaves a limited balance below zero
C3_FailedConsumeNoChange ==
    [][\A r \in ConsumeRequests :
          Serve(r) =>
            /\ ( ~is_unlimited(Loaded(r.user))
                 /\ get_operation_cost(r.operation) > Loaded(r.user).available_tokens )
               => /\ resp'.success = FALSE
                  /\ resp'.cost = get_operation_cost(r.operation)
                  /\ resp'.availableTokens = subs[r.user].available_tokens
                  /\ subs' = subs
                  /\ transactions' = transactions
            /\ ~is_unlimited(subs'[r.user]) => subs'[r.user].available_tokens >= 0]_vars

\* a consume was refused for lack of tokens
C3_Witness ==
    /\ resp.kind = "consume" /\ resp.status = 200 /\ ~resp.success
    /\ resp.cost > resp.availableTokens
    /\ Limited(resp.user)
    /\ subs[resp.user].available_tokens = resp.availableTokens


\* C4: in every reachable state a subscription whose tier is not ultimate
\* has 0 <= availableTokens <= totalTokens
C4_BalanceWithinTotal ==
    \A u \in Users :
        Limited(u) =>
            /\ 0 <= subs[u].available_tokens
            /\ subs[u].available_tokens <= subs[u].total_tokens

\* a limited subscription after an admin deduction and a consume
C4_Witness ==
    \E u \in Users :
        /\ Limited(u)
        /\ 0 < subs[u].available_tokens
        /\ subs[u].available_tokens < subs[u].total_tokens
        /\ subs[u].total_tokens < TIER_TOKEN_LIMITS[subs[u].tier]

\* C5: every successful consume, admin_adjust, change_tier and reset_period
\* adds exactly one TokenTransaction row of its user, committed with the
\* counters; a failed or rejected attempt adds none
C5_LedgerCompleteness ==
    [][\A r \in Requests :
          Serve(r) =>
            IF resp'.status = 200 /\ resp'.success
            THEN /\ Len(transactions') = Len(transactions) + 1
                 /\ transactions'[Len(transactions')].user_id = r.user
                 /\ SubSeq(transactions', 1, Len(transactions)) = transactions
            ELSE transactions' = transactions]_vars

\* C6: a successful consume of cost c on a limited subscription takes c from
\* availableTokens, adds c to consumedTokens and lifetimeConsumed, keeps
\* totalTokens and tier, and appends one consumption row with amount -c and
\* the balance before and after
C6_ConsumeEffect ==
    [][\A r \in ConsumeRequests :
          LET u == r.user
              c == get_operation_cost(r.operation)
              old == Loaded(u)
          IN  (Serve(r) /\ resp'.success /\ ~is_unlimited(old)) =>
                /\ resp'.cost = c
                /\ subs'[u].available_tokens = old.available_tokens - c
                /\ subs'[u].consumed_tokens = old.consumed_tokens + c
                /\ subs'[u].lifetime_consumed = old.lifetime_consumed + c
                /\ subs'[u].total_tokens = old.total_tokens
                /\ subs'[u].tier = old.tier
                /\ transactions' = Append(transactions,
                        TokenTransaction(u, "consumption", -c,
                            old.available_tokens, subs'[u].available_tokens, "-"))
                /\ resp'.availableTokens = subs'[u].available_tokens
                /\ resp'.consumedTokens = subs'[u].consumed_tokens]_vars

\* a consume succeeded on a limited subscription and its row is the newest
C6_Witness ==
    /\ resp.kind = "consume" /\ resp.success
    /\ Limited(resp.user)
    /\ Len(transactions) > 0
    /\ LastTxn.type = "consumption"
    /\ LastTxn.amount = -resp.cost
    /\ LastTxn.balance_after = subs[resp.user].available_tokens

\* amounts has_tokens is asked about
AmountSamples == {0, 1, 20, 3000, 1000000}

\* C7: on the ultimate tier has_tokens is true for every amount, and every
\* consume succeeds, keeps availableTokens and totalTokens, and adds the cost
\* to consumedTokens and lifetimeConsumed
C7_UnlimitedTier ==
    /\ [](\A u \in Users : (HasRow(u) /\ subs[u].tier = "ultimate") =>
            \A n \in AmountSamples : has_tokens(subs[u], n))
    /\ [][\A r \in ConsumeRequests :
            LET u == r.user
                c == get_operation_cost(r.operation)
            IN  (Serve(r) /\ HasRow(u) /\ subs[u].tier = "ultimate") =>
                  /\ resp'.success
                  /\ subs'[u].available_tokens = subs[u].available_tokens
                  /\ subs'[u].total_tokens = subs[u].total_tokens
                  /\ subs'[u].consumed_tokens = subs[u].consumed_tokens + c
                  /\ subs'[u].lifetime_consumed = subs[u].lifetime_consumed + c]_vars

\* a consume succeeded on the ultimate tier
C7_Witness ==
    /\ resp.kind = "consume" /\ resp.success
    /\ HasRow(resp.user)
    /\ subs[resp.user].tier = "ultimate"
    /\ subs[resp.user].consumed_tokens = resp.cost
    /\ subs[resp.user].lifetime_consumed >= resp.cost

\* C8: lifetimeConsumed never decreases in any step, concurrent consumes of
\* one user included; the reset and tier handlers leave it unchanged
C8_LifetimeMonotone ==
    [][/\ \A u \in Users :
            HasRow(u) => subs'[u].lifetime_consumed >= subs[u].lifetime_consumed
       /\ \A p \in Procs :
            ( /\ Commit(p)
              /\ sess[p].req.kind \in {"tier", "reset"}
              /\ HasRow(sess[p].req.user) )
            => subs'[sess[p].req.user].lifetime_consumed
                 = subs[sess[p].req.user].lifetime_consumed]_vars

\* C9: an admin_adjust rejected for the unlimited tier or for a deduction
\* larger than the balance changes no row and writes no transaction
C9_RejectedAdjustNoChange ==
    [][\A r \in TopupRequests :
          LET u == r.user
          IN  ( /\ Serve(r)
                /\ HasRow(u)
                /\ \/ is_unlimited(subs[u])
                   \/ r.amount < 0 /\ subs[u].available_tokens + r.amount < 0 )
              => /\ resp'.status = 400
                 /\ subs' = subs
                 /\ transactions' = transactions]_vars

\* an adjustment of the ultimate tier was rejected
C9_Witness ==
    /\ resp.kind = "topup" /\ resp.status = 400
    /\ HasRow(resp.user)
    /\ is_unlimited(subs[resp.user])
    /\ subs[resp.user].consumed_tokens > 0

\* C10: change_tier sets the tier, consumedTokens = 0 and a period of 30 days
\* from now; a tier other than ultimate sets totalTokens = availableTokens =
\* its limit, ultimate keeps both as they were
C10_ChangeTierEffect ==
    [][\A r \in TierRequests :
          LET u == r.user
              limit == TIER_TOKEN_LIMITS[r.tier]
          IN  Serve(r) =>
                /\ subs'[u].tier = r.tier
                /\ subs'[u].consumed_tokens = 0
                /\ subs'[u].period_start = now
                /\ subs'[u].period_end = now + PERIOD_DAYS
                /\ r.tier # "ultimate" =>
                      /\ subs'[u].total_tokens = limit
                      /\ subs'[u].available_tokens = limit
                /\ (r.tier = "ultimate" /\ HasRow(u)) =>
                      /\ subs'[u].total_tokens = subs[u].total_tokens
                      /\ subs'[u].available_tokens = subs[u].available_tokens]_vars

\* a consumed subscription was moved to the ultimate tier
C10_Witness ==
    /\ resp.kind = "tier" /\ resp.success
    /\ Len(transactions) > 0
    /\ LastTxn.type = "tier_change"
    /\ subs[resp.user].tier = "ultimate"
    /\ subs[resp.user].consumed_tokens = 0
    /\ subs[resp.user].lifetime_consumed > 0
    /\ subs[resp.user].available_tokens < subs[resp.user].total_tokens
    /\ subs[resp.user].period_start = now - 1

\* C11: every successful change_tier, the one for a user without a
\* subscription row included, appends exactly one tier_change row whose
\* amount is balance_after - balance_before, whose balance_after is the new
\* availableTokens and whose admin_id is the acting administrator
C11_TierChangeRow ==
    [][\A r \in TierRequests :
          LET n == Len(transactions')
          IN  (Serve(r) /\ resp'.success) =>
                /\ n = Len(transactions) + 1
                /\ SubSeq(transactions', 1, n - 1) = transactions
                /\ transactions'[n].type = "tier_change"
                /\ transactions'[n].user_id = r.user
                /\ transactions'[n].amount =
                      transactions'[n].balance_after - transactions'[n].balance_before
                /\ transactions'[n].balance_after = subs'[r.user].available_tokens
                /\ transactions'[n].admin_id = r.admin]_vars

ResetRequests == {r \in Requests : r.kind = "reset" /\ Validate(r) = 0}

\* the counters reset_period works on
Counters(s) ==
    <<s.tier, s.total_tokens, s.available_tokens, s.consumed_tokens>>

\* C12: reset_period succeeds for every user who has a subscription; it
\* leaves consumedTokens = 0, the tier as it was, totalTokens =
\* availableTokens = the tier's limit (both as they were when unlimited); and
\* a reset_period applied to what a reset_period left changes none of tier,
\* totalTokens, availableTokens, consumedTokens
C12_ResetIdempotent ==
    [][\A r \in ResetRequests :
          LET u == r.user
              limit == TIER_TOKEN_LIMITS[subs[u].tier]
              once == reset_user_billing_period(subs[u], r, now).row
              twice == reset_user_billing_period(once, r, now + 1).row
          IN  (Serve(r) /\ HasRow(u)) =>
                /\ resp'.status = 200 /\ resp'.success
                /\ subs'[u] = once
                /\ Counters(twice) = Counters(once)
                /\ subs'[u].consumed_tokens = 0
                /\ subs'[u].tier = subs[u].tier
                /\ IF is_unlimited(subs[u])
                   THEN /\ subs'[u].total_tokens = subs[u].total_tokens
                        /\ subs'[u].available_tokens = subs[u].available_tokens
                   ELSE /\ subs'[u].total_tokens = limit
                        /\ subs'[u].available_tokens = limit
                /\ (resp.kind = "reset" /\ resp.success /\ resp.user = u) =>
                      Counters(subs'[u]) = Counters(subs[u])]_vars

\* a reset_period that restored a consumed balance was followed by a second
\* reset_period of the same user, which moved nothing
C12_Witness ==
    /\ Len(transactions) >= 3
    /\ resp.kind = "reset" /\ resp.success
    /\ transactions[Len(transactions) - 1].type = "reset"
    /\ transactions[Len(transactions) - 1].amount > 0
    /\ LastTxn.type = "reset"
    /\ LastTxn.user_id = transactions[Len(transactions) - 1].user_id
    /\ LastTxn.amount = 0
    /\ subs[resp.user].consumed_tokens = 0
    /\ subs[resp.user].lifetime_consumed > 0

\* C13: when requests of one user who has no subscription interleave in
\* get_or_create_subscription, the one whose INSERT meets the row of the
\* other still obtains the subscription: it goes on with the row that is in
\* the table
C13_ConcurrentFirstAccess ==
    [][\A p \in Procs :
          Create(p) =>
            /\ sess'[p].pc = "loaded"
            /\ sess'[p].snap = subs'[sess[p].req.user]]_vars

\* the requests a user can make to POST /video-jobs
Submits(u) ==
    \E form \in SubmitForms, broker_up \in BOOLEAN :
        create_video_job(u, form, broker_up)

\* the balance of u covers the charge of a video job
CoversVideo(u) ==
    /\ HasRow(u)
    /\ \/ is_unlimited(subs[u])
       \/ subs[u].available_tokens >= DEFAULT_TOKENS_CONSUMED

\* C14: a submit with valid parameters by a user whose availableTokens cover
\* the cost of video_generation and who has fewer than 3 jobs in PENDING or
\* RUNNING succeeds: the cost is defined and consumed once (one consumption
\* row), and one new VideoJob with status PENDING is created and enqueued
C14_SubmitSucceeds ==
    [][\A u \in Users :
          LET n == Len(video_jobs')
              t == Len(transactions')
          IN  ( /\ create_video_job(u, "valid", TRUE)
                /\ CoversVideo(u)
                /\ Cardinality(RunningJobs(u)) < MAX_CONCURRENT_JOBS ) =>
                /\ resp'.status = 202
                /\ n = Len(video_jobs) + 1
                /\ video_jobs'[n].status = "PENDING"
                /\ video_jobs'[n].user_id = u
                /\ queue' = queue \cup {n}
                /\ t = Len(transactions) + 1
                /\ transactions'[t].type = "consumption"
                /\ transactions'[t].amount < 0
                /\ subs'[u].consumed_tokens =
                      subs[u].consumed_tokens - transactions'[t].amount]_vars

\* C15: a submit by a user who lacks the tokens is rejected with
\* PaymentRequired (402) that carries the cost and the available tokens; no
\* VideoJob is created, nothing is enqueued, the subscription and the
\* ledger stay as they were
C15_SubmitPaymentRequired ==
    [][\A u \in Users :
          ( /\ Submits(u)
            /\ Limited(u)
            /\ subs[u].available_tokens < DEFAULT_TOKENS_CONSUMED ) =>
            /\ resp'.status = 402
            /\ resp'.cost > 0
            /\ resp'.availableTokens = subs[u].available_tokens
            /\ video_jobs' = video_jobs
            /\ queue' = queue
            /\ subs' = subs
            /\ transactions' = transactions]_vars

\* C16: a submit by a user who has 3 jobs in PENDING or RUNNING is rejected
\* with TooManyConcurrentJobs (429), whatever the balance is, and the user
\* still has 3 jobs in PENDING or RUNNING
C16_ConcurrencyGate ==
    [][\A u \in Users :
          ( /\ Submits(u)
            /\ Cardinality(RunningJobs(u)) = MAX_CONCURRENT_JOBS ) =>
            /\ resp'.status = 429
            /\ Cardinality(RunningJobs(u))' = MAX_CONCURRENT_JOBS]_vars

\* the statuses after which a job is not to change
TerminalStatuses == {"SUCCEEDED", "FAILED", "CANCELLED", "DELETED"}

\* C19: a VideoJob whose status is SUCCEEDED, FAILED, CANCELLED or DELETED
\* keeps that status in every later step, of the API and of the worker
C19_TerminalExclusivity ==
    [][\A j \in JobIds :
          video_jobs[j].status \in TerminalStatuses =>
            \/ video_jobs'[j] = NoJob
            \/ video_jobs'[j].status = video_jobs[j].status]_vars

\* the associations of a look that are its default video
DefaultsIn(rows, look_id) ==
    {a \in rows : a.look_id = look_id /\ a.is_default}

Defaults(look_id) == DefaultsIn(look_videos, look_id)

\* C21: under any interleaving of set_default and unset_default requests (of
\* the creation and the deletion of videos too) a look has at most one
\* default video; a set_default that commits leaves exactly one default, the
\* video it names, whichever video was the default before
C21_SingleDefault ==
    /\ [](\A look_id \in Looks : Cardinality(Defaults(look_id)) <= 1)
    /\ [][\A p \in Procs :
            LET req == sess[p].req
            IN  ( /\ CommitDefault(p)
                  /\ req.kind \in {"set_default", "set_default_video"}
                  /\ Associations(req.look_id, req.job_id) # {} ) =>
                  /\ Cardinality(DefaultsIn(look_videos', req.look_id)) = 1
                  /\ \A a \in DefaultsIn(look_videos', req.look_id) :
                        a.video_job_id = req.job_id]_vars

\* two set_default requests with different job ids for one look were served,
\* one after the other, and the look has two videos
C21_Witness ==
    /\ sess["p1"].pc = "done" /\ sess["p1"].resp.kind = "set_default"
    /\ sess["p2"].pc = "done" /\ sess["p2"].resp.kind = "set_default"
    /\ sess["p1"].resp.success /\ sess["p2"].resp.success
    /\ sess["p1"].resp.job_id # sess["p2"].resp.job_id
    /\ sess["p1"].resp.look_id = sess["p2"].resp.look_id
    /\ Cardinality({a \in look_videos : a.look_id = sess["p1"].resp.look_id}) = 2
    /\ Cardinality(Defaults(sess["p1"].resp.look_id)) = 1

\* C22: delete removes the job record, whatever its status is, and leaves
\* the subscriptions, the ledger and the other jobs as they were
C22_DeleteKeepsTokens ==
    [][\A job_id \in JobIds :
          ( /\ delete_video_job("u1", job_id)
            /\ video_jobs[job_id] # NoJob ) =>
            /\ resp'.status = 204
            /\ video_jobs'[job_id] = NoJob
            /\ \A k \in JobIds \ {job_id} : video_jobs'[k] = video_jobs[k]
            /\ subs' = subs
            /\ transactions' = transactions]_vars

\* the job of a user who consumed tokens was deleted while the worker was
\* polling for it
C22_Witness ==
    /\ resp.kind = "delete_video_job" /\ resp.success
    /\ work.pc = "polling"
    /\ video_jobs[work.job_id] = NoJob
    /\ HasRow("u1")
    /\ subs["u1"].consumed_tokens > 0
    /\ Len(transactions) > 0

\* the requests a user can make to the generation endpoints
Generates(u, endpoint) ==
    \E valid, service_up \in BOOLEAN : generate(u, endpoint, valid, service_up)

\* this step's consume succeeded: it wrote one consumption row of u
Consumed(u) ==
    /\ Len(transactions') = Len(transactions) + 1
    /\ transactions'[Len(transactions')].type = "consumption"
    /\ transactions'[Len(transactions')].user_id = u

\* C23: a generation request calls the generation service (for a submit:
\* hands the job to the queue) only when its consume has succeeded; a
\* request whose consume answers success = false ends with 402 and makes no
\* call, and a submit whose consume raises makes none
C23_ConsumeBeforeGenerate ==
    [][\A u \in Users :
          /\ \A endpoint \in DOMAIN GenerationOperation :
                Generates(u, endpoint) =>
                   /\ invoked' # NoCall =>
                         /\ Consumed(u)
                         /\ invoked' = Call(endpoint, u)
                         /\ transactions'[Len(transactions')].amount =
                               -get_operation_cost(GenerationOperation[endpoint])
                   /\ ~Consumed(u) => invoked' = NoCall
                   /\ ( /\ Limited(u)
                        /\ subs[u].available_tokens <
                              get_operation_cost(GenerationOperation[endpoint]) ) =>
                         /\ resp'.status \in {402, 422}
                         /\ invoked' = NoCall
          /\ Submits(u) =>
                /\ queue' # queue => Consumed(u)
                /\ ~Consumed(u) => queue' = queue]_vars

\* a request was refused for lack of tokens and made no call, after a
\* request that was charged and made one
C23_Witness ==
    /\ resp.status = 402
    /\ resp.kind \in DOMAIN GenerationOperation
    /\ invoked = NoCall
    /\ Len(transactions) >= 2
    /\ transactions[1].type = "consumption"
    /\ subs[resp.user].available_tokens < resp.cost

\* the ledger rows of one user, oldest first
Ledger(txns, u) == SelectSeq(txns, LAMBDA t : t.user_id = u)

\* C24: a consume, admin top-up or deduction, tier change, period reset or
\* lazy creation for one user leaves the subscription row and the ledger rows
\* of every other user as they were
C24_OtherUsersUntouched ==
    [][\A req \in Requests :
          Serve(req) =>
             \A u \in Users \ {req.user} :
                /\ subs'[u] = subs[u]
                /\ Ledger(transactions', u) = Ledger(transactions, u)]_vars

\* both users have a row and ledger entries, and the last request was an
\* admin's change to u1 that came after u2's consumption
C24_Witness ==
    /\ HasRow("u1") /\ HasRow("u2")
    /\ Len(Ledger(transactions, "u2")) >= 1
    /\ Len(Ledger(transactions, "u1")) >= 2
    /\ LastTxn.user_id = "u1"
    /\ LastTxn.type \in {"admin_adjust", "tier_change", "reset"}
    /\ subs["u2"].consumed_tokens > 0

\* the job is gone, or the worker has closed it
ClosedIn(jobs, job_id) ==
    /\ job_id \in DOMAIN jobs
    /\ \/ jobs[job_id] = NoJob
       \/ jobs[job_id].status \in {"SUCCEEDED", "FAILED"}

Closed(job_id) == ClosedIn(video_jobs, job_id)

C26_ProgressMonotone ==
    /\ [](\A job_id \in JobIds :
             video_jobs[job_id] # NoJob =>
                video_jobs[job_id].progress_percentage \in 0..100)
    /\ [][\A job_id \in JobIds :
             ( /\ video_jobs[job_id] # NoJob
               /\ video_jobs'[job_id] # NoJob
               /\ video_jobs'[job_id].status = "RUNNING" ) =>
                video_jobs'[job_id].progress_percentage >=
                   video_jobs[job_id].progress_percentage]_vars

\* C27: a SUCCEEDED job has its permanent URL and progress 100; a FAILED job
\* has an error message and progress below 100
C27_TerminalFields ==
    \A job_id \in JobIds :
       LET job == video_jobs[job_id]
       IN  job # NoJob =>
              /\ job.status = "SUCCEEDED" =>
                    /\ job.cloudinary_url # ""
                    /\ job.progress_percentage = 100
              /\ job.status = "FAILED" =>
                    /\ job.error_message # ""
                    /\ job.progress_percentage < 100

\* a job that had succeeded was run again and failed in the upload
C27_Witness ==
    \E job_id \in JobIds :
       /\ video_jobs[job_id] # NoJob
       /\ video_jobs[job_id].status = "FAILED"
       /\ video_jobs[job_id].error_message = "Failed to upload video"
       /\ video_jobs[job_id].cloudinary_url # ""
       /\ video_jobs[job_id].progress_percentage = 90

\* C28: a ledger row written for a subscription whose tier is ultimate has
\* balance_before = -1 and balance_after = -1, whatever its type; a row
\* written for any other tier has both balances non-negative
C28_UnlimitedSentinel ==
    [][Len(transactions') = Len(transactions) + 1 =>
          LET t == transactions'[Len(transactions')]
          IN  IF subs'[t.user_id].tier = "ultimate"
              THEN t.balance_before = -1 /\ t.balance_after = -1
              ELSE t.balance_before >= 0 /\ t.balance_after >= 0]_vars

\* the ledger rows of u in txns form a chain that ends at the balance of u's
\* row in table; a row without ledger entries holds its tier's allocation
ChainIn(txns, table, u) ==
    LET L == Ledger(txns, u)
    IN  /\ table[u] = NoRow => L = <<>>
        /\ (table[u] # NoRow /\ L = <<>>) =>
              table[u].available_tokens = TIER_TOKEN_LIMITS[table[u].tier]
        /\ \A i \in 1..Len(L) :
              /\ L[i].amount = L[i].balance_after - L[i].balance_before
              /\ i > 1 => L[i].balance_before = L[i-1].balance_after
        /\ L # <<>> => L[Len(L)].balance_after = table[u].available_tokens

NotUltimate(s) == s = NoRow \/ s.tier # "ultimate"

\* C30: for a user whose tier was never ultimate, with the operations run one
\* at a time, every ledger row's balance_before is the balance_after of the
\* user's previous row (for the first row: the allocation the subscription
\* was created with), its amount is balance_after - balance_before, and the
\* newest balance_after is the subscription's available_tokens.  Stated as
\* the induction over the steps: the chain holds at the start and every step
\* between two non-ultimate states of the user keeps it
C30_LedgerChain ==
    /\ \A u \in Users : subs[u] = NoRow => ChainIn(transactions, subs, u)
    /\ [][\A u \in Users :
             ( /\ ChainIn(transactions, subs, u)
               /\ NotUltimate(subs[u])
               /\ NotUltimate(subs'[u]) ) =>
                /\ ChainIn(transactions', subs', u)
                /\ ( Ledger(transactions, u) = <<>> /\
                     Ledger(transactions', u) # <<>> ) =>
                       Ledger(transactions', u)[1].balance_before =
                          IF subs[u] = NoRow THEN TIER_TOKEN_LIMITS["free"]
                          ELSE TIER_TOKEN_LIMITS[subs[u].tier]]_vars

\* u1, never on the ultimate tier, has a chain of a consumption, an admin
\* adjustment and a tier change or reset
C30_Witness ==
    LET L == Ledger(transactions, "u1")
    IN  /\ Len(L) = 3
        /\ \A i \in 1..3 : L[i].balance_before >= 0
        /\ HasRow("u1") /\ subs["u1"].tier # "ultimate"
        /\ ChainIn(transactions, subs, "u1")
        /\ \E i \in 1..3 : L[i].type = "consumption"
        /\ \E i \in 1..3 : L[i].type \in {"topup", "admin_deduction"}
        /\ \E i \in 1..3 : L[i].type \in {"tier_change", "reset"}
        /\ \A i \in 1..3 : L[i].type = "tier_change" =>
              L[i].amount # 0

====
